---- MODULE Spec2Model ----
(***************************************************************************)
(* Model of the RAG chatbot: the credential store, the chat session store  *)
(* (utils.py) and the Streamlit session orchestrator (main.py).            *)
(*                                                                         *)
(* Files on disk are modelled by their content: a file is absent, holds    *)
(* bytes that json.load rejects, or holds a JSON value.                    *)
(***************************************************************************)
EXTENDS Integers, Sequences, FiniteSets, TLC

VARIABLES
    users_json,     \* content of the file users.json
    user_dirs,      \* usernames u for which user_data/u/chats exists
    call,           \* the last completed call: operation and arguments
    ret,            \* what the last completed call returned (or raised)
    first_pw,       \* history: password of the first register call per user
    reg_pc,         \* per process: position inside register_user
    reg_arg,        \* per process: arguments of its register_user call
    reg_db,         \* per process: the local variable db of register_user
    reg_ret,        \* per process: result of register_user
    chats,          \* content of user_data/<username>/chats/<chat_id>.json
    mtime_order,    \* per user: the chat files, most recently written first
    saved,          \* history: the messages last saved per record, if any
    race,           \* a save and a load of one record in two processes:
                    \* their positions and the messages saved before and now
    session_state,  \* st.session_state of one browser session
    faiss_index,    \* content of user_data/<username>/faiss_index
    now,            \* the wall clock, in seconds
    turns           \* the number of messages sent so far

vars == <<users_json, user_dirs, call, ret, first_pw,
          reg_pc, reg_arg, reg_db, reg_ret, chats, mtime_order, saved, race,
          session_state, faiss_index, now, turns>>

\* ------------------------------------------------------------------------
\* Bounds
\* ------------------------------------------------------------------------
NumPasswords == 3
MaxLen == 2
MaxClock == 2
MaxTurns == 3

Users == {"alice", "bob"}
\* A chat id is "chat_" and a second of the wall clock (main.py line 88).
chat_id_at(second) == [kind |-> "chat", second |-> second]
ChatIds == {chat_id_at(1), chat_id_at(2)}
Passwords == 1..NumPasswords
Procs == {1, 2}

\* ------------------------------------------------------------------------
\* Values
\* ------------------------------------------------------------------------
None == [kind |-> "None"]
Absent == [kind |-> "absent"]
Truncated == [kind |-> "truncated"]
Json(v) == [kind |-> "json", value |-> v]
Returned(v) == [kind |-> "returned", value |-> v]
Raised(e) == [kind |-> "raised", error |-> e]
EmptyDb == [u \in {} |-> None]
Idle == [op |-> "none"]

\* main.py lines 22-31: the session state a new browser session starts with
NewSession ==
    [logged_in |-> FALSE, username |-> "", chat_history |-> <<>>,
     agent_executor |-> None, current_chat_id |-> None]

InitIdleApp ==
    /\ session_state = NewSession
    /\ faiss_index = [u \in Users |-> None]
    /\ now = 1
    /\ turns = 0

\* ------------------------------------------------------------------------
\* Credential store (utils.py)
\* ------------------------------------------------------------------------
\* hashlib.sha256(...).hexdigest(): a digest distinct from the password,
\* injective on the passwords considered.
hash_password(password) == <<"sha256", password>>

\* get_user_db: the file after the call (created holding {} when absent).
get_user_db_file(file) == IF file = Absent THEN Json(EmptyDb) ELSE file

\* get_user_db: the mapping returned (json.load of the file).
get_user_db(file) == get_user_db_file(file).value

\* db[username] = hash
db_put(db, username, hash) ==
    [u \in DOMAIN db \cup {username} |-> IF u = username THEN hash ELSE db[u]]

\* save_user_db: the file content written.
save_user_db(db) == Json(db)

verify_user_result(file, username, password) ==
    LET db == get_user_db(file)
    IN  username \in DOMAIN db /\ db[username] = hash_password(password)

UnchangedApp == UNCHANGED <<session_state, faiss_index, now, turns>>

UnchangedRace == UNCHANGED <<reg_pc, reg_arg, reg_db, reg_ret, race>>

UnchangedStore == UNCHANGED <<chats, mtime_order, saved>>

\* verify_user(username, password), run to completion.
verify_user(username, password) ==
    /\ users_json # Truncated
    /\ users_json' = get_user_db_file(users_json)
    /\ ret' = Returned(verify_user_result(users_json, username, password))
    /\ call' = [op |-> "verify", username |-> username, password |-> password]
    /\ UNCHANGED <<user_dirs, first_pw>>
    /\ UnchangedRace
    /\ UnchangedApp
    /\ UnchangedStore

\* Faulty variant of register_user: the check of line 54 is missing, so a
\* second registration replaces the stored hash.
register_user_overwrites(username, password) ==
    /\ users_json # Truncated
    /\ users_json' = save_user_db(
           db_put(get_user_db(users_json), username, hash_password(password)))
    /\ ret' = Returned(TRUE)
    /\ user_dirs' = user_dirs \cup {username}
    /\ call' = [op |-> "register", username |-> username, password |-> password]
    /\ first_pw' = IF first_pw[username] = None
                   THEN [first_pw EXCEPT ![username] = Returned(password)]
                   ELSE first_pw
    /\ UnchangedRace
    /\ UnchangedApp
    /\ UnchangedStore

\* register_user(username, password), run to completion.
register_user(username, password) ==
    /\ users_json # Truncated
    /\ LET db == get_user_db(users_json)
       IN  IF username \in DOMAIN db
           THEN /\ users_json' = get_user_db_file(users_json)
                /\ ret' = Returned(FALSE)
                /\ UNCHANGED user_dirs
           ELSE /\ users_json' = save_user_db(db_put(db, username, hash_password(password)))
                /\ ret' = Returned(TRUE)
                /\ user_dirs' = user_dirs \cup {username}
    /\ call' = [op |-> "register", username |-> username, password |-> password]
    /\ first_pw' = IF first_pw[username] = None
                   THEN [first_pw EXCEPT ![username] = Returned(password)]
                   ELSE first_pw
    /\ UnchangedRace
    /\ UnchangedApp
    /\ UnchangedStore

InitCred ==
    /\ users_json = Absent
    /\ user_dirs = {}
    /\ call = Idle
    /\ ret = None
    /\ first_pw = [u \in Users |-> None]
    /\ reg_pc = [p \in Procs |-> "idle"]
    /\ reg_arg = [p \in Procs |-> None]
    /\ reg_db = [p \in Procs |-> None]
    /\ reg_ret = [p \in Procs |-> None]
    /\ chats = [u \in Users |-> [c \in ChatIds |-> Absent]]
    /\ mtime_order = [u \in Users |-> <<>>]
    /\ saved = [u \in Users |-> [c \in ChatIds |-> None]]
    /\ race = None
    /\ InitIdleApp

NextCred ==
    \/ \E u \in Users, p \in Passwords : register_user(u, p)
    \/ \E u \in Users, p \in Passwords : verify_user(u, p)

SpecCred == InitCred /\ [][NextCred]_vars

\* C3: in any sequential run, register(u, p) returns true exactly when no
\* register call was made for u before, a register on a used username leaves
\* the stored mapping unchanged, and verify(u, p) returns true iff p is the
\* password of the first register call for u (false for a username never
\* registered).
C3_RegisterVerify ==
    [][\A u \in Users, p \in Passwords :
         /\ register_user(u, p) =>
              /\ ret' = Returned(first_pw[u] = None)
              /\ first_pw[u] # None => users_json' = users_json
         /\ verify_user(u, p) =>
              ret' = Returned(first_pw[u] = Returned(p))]_vars

\* A second register for a username, with another password, was refused.
C3_Witness ==
    /\ call.op = "register"
    /\ ret = Returned(FALSE)
    /\ first_pw[call.username] # Returned(call.password)

\* ------------------------------------------------------------------------
\* register_user as the file steps of one process among several (utils.py)
\* ------------------------------------------------------------------------
UnchangedSeq ==
    UNCHANGED <<call, ret, first_pw, chats, mtime_order, saved, race,
                session_state, faiss_index, now, turns>>

reg_goto(p, label) == reg_pc' = [reg_pc EXCEPT ![p] = label]

\* get_user_db line 23: os.path.exists("users.json")
reg_exists(p) ==
    /\ reg_pc[p] = "exists"
    /\ reg_goto(p, IF users_json = Absent THEN "create_open" ELSE "load")
    /\ UNCHANGED <<users_json, user_dirs, reg_arg, reg_db, reg_ret>>
    /\ UnchangedSeq

\* get_user_db line 24: open("users.json", "w") creates or truncates the file
reg_create_open(p) ==
    /\ reg_pc[p] = "create_open"
    /\ users_json' = Truncated
    /\ reg_goto(p, "create_dump")
    /\ UNCHANGED <<user_dirs, reg_arg, reg_db, reg_ret>>
    /\ UnchangedSeq

\* get_user_db line 25: json.dump({}, f) and the close that flushes it
reg_create_dump(p) ==
    /\ reg_pc[p] = "create_dump"
    /\ users_json' = Json(EmptyDb)
    /\ reg_goto(p, "load")
    /\ UNCHANGED <<user_dirs, reg_arg, reg_db, reg_ret>>
    /\ UnchangedSeq

\* get_user_db lines 26-27: json.load raises JSONDecodeError on an empty file
reg_load(p) ==
    /\ reg_pc[p] = "load"
    /\ IF users_json = Truncated
       THEN /\ reg_ret' = [reg_ret EXCEPT ![p] = Raised("JSONDecodeError")]
            /\ reg_goto(p, "done")
            /\ UNCHANGED reg_db
       ELSE /\ reg_db' = [reg_db EXCEPT ![p] = users_json]
            /\ reg_goto(p, "check")
            /\ UNCHANGED reg_ret
    /\ UNCHANGED <<users_json, user_dirs, reg_arg>>
    /\ UnchangedSeq

\* register_user lines 54-56
reg_check(p) ==
    /\ reg_pc[p] = "check"
    /\ LET db == reg_db[p].value
           u == reg_arg[p].username
       IN  IF u \in DOMAIN db
           THEN /\ reg_ret' = [reg_ret EXCEPT ![p] = Returned(FALSE)]
                /\ reg_goto(p, "done")
                /\ UNCHANGED reg_db
           ELSE /\ reg_db' = [reg_db EXCEPT ![p] =
                        Json(db_put(db, u, hash_password(reg_arg[p].password)))]
                /\ reg_goto(p, "save_open")
                /\ UNCHANGED reg_ret
    /\ UNCHANGED <<users_json, user_dirs, reg_arg>>
    /\ UnchangedSeq

\* save_user_db line 31: open("users.json", "w") truncates the file
reg_save_open(p) ==
    /\ reg_pc[p] = "save_open"
    /\ users_json' = Truncated
    /\ reg_goto(p, "save_dump")
    /\ UNCHANGED <<user_dirs, reg_arg, reg_db, reg_ret>>
    /\ UnchangedSeq

\* save_user_db line 32: json.dump(db, f) and the close that flushes it
reg_save_dump(p) ==
    /\ reg_pc[p] = "save_dump"
    /\ users_json' = save_user_db(reg_db[p].value)
    /\ reg_goto(p, "mkdirs")
    /\ UNCHANGED <<user_dirs, reg_arg, reg_db, reg_ret>>
    /\ UnchangedSeq

\* register_user lines 59-61
reg_mkdirs(p) ==
    /\ reg_pc[p] = "mkdirs"
    /\ user_dirs' = user_dirs \cup {reg_arg[p].username}
    /\ reg_ret' = [reg_ret EXCEPT ![p] = Returned(TRUE)]
    /\ reg_goto(p, "done")
    /\ UNCHANGED <<users_json, reg_arg, reg_db>>
    /\ UnchangedSeq

InitRegRace ==
    /\ users_json \in {Absent, Json(EmptyDb)}
    /\ user_dirs = {}
    /\ call = Idle
    /\ ret = None
    /\ first_pw = [u \in Users |-> None]
    /\ reg_pc = [p \in Procs |-> "exists"]
    /\ reg_arg \in [Procs -> [username : Users, password : Passwords]]
    /\ reg_db = [p \in Procs |-> None]
    /\ reg_ret = [p \in Procs |-> None]
    /\ chats = [u \in Users |-> [c \in ChatIds |-> Absent]]
    /\ mtime_order = [u \in Users |-> <<>>]
    /\ saved = [u \in Users |-> [c \in ChatIds |-> None]]
    /\ race = None
    /\ InitIdleApp

NextRegRace ==
    \E p \in Procs :
        \/ reg_exists(p)
        \/ reg_create_open(p)
        \/ reg_create_dump(p)
        \/ reg_load(p)
        \/ reg_check(p)
        \/ reg_save_open(p)
        \/ reg_save_dump(p)
        \/ reg_mkdirs(p)

SpecRegRace == InitRegRace /\ [][NextRegRace]_vars

\* C2: two processes registering distinct usernames both return true and
\* afterwards both credentials verify, whatever the interleaving of their
\* file steps.
C2_ConcurrentRegisterSafe ==
    (/\ \A p \in Procs : reg_pc[p] = "done"
     /\ reg_arg[1].username # reg_arg[2].username)
    => \A p \in Procs :
          /\ reg_ret[p] = Returned(TRUE)
          /\ users_json # Truncated
          /\ verify_user_result(users_json, reg_arg[p].username, reg_arg[p].password)

\* ------------------------------------------------------------------------
\* Chat session store (utils.py)
\* ------------------------------------------------------------------------
TitleLimit == 50

\* JSON values as json.load returns them.
\* A string is a sequence of characters.
JStr(s) == [j |-> "string", chars |-> s]
JNum(n) == [j |-> "number", number |-> n]
JNull == [j |-> "null"]
JList(items) == [j |-> "array", items |-> items]
JObj(fields) == [j |-> "object", fields |-> fields]

Alphabet == <<"a", "b", "c">>
Text(n) == [i \in 1..n |-> Alphabet[(i % 3) + 1]]
Ellipsis == <<".", ".", ".">>
NewChatTitle == <<"N", "e", "w", " ", "C", "h", "a", "t">>
TypeHuman == <<"h", "u", "m", "a", "n">>
TypeAi == <<"a", "i">>
TypeSystem == <<"s", "y", "s", "t", "e", "m">>

HumanMessage(content) == [class |-> "HumanMessage", content |-> content]
AIMessage(content) == [class |-> "AIMessage", content |-> content]

\* The messages and message lists the store is exercised with.
Msgs ==
    {HumanMessage(Text(n)) : n \in {TitleLimit, TitleLimit + 1}}
        \cup {AIMessage(Text(2))}
Histories == UNION {[1..n -> Msgs] : n \in 0..MaxLen}

\* Faulty variant of serializable_history: every message is tagged human.
serializable_history_untagged(chat_history) ==
    [i \in 1..Len(chat_history) |->
        [type |-> TypeHuman, content |-> chat_history[i].content]]

\* save_chat_history lines 141-146
serializable_history(chat_history) ==
    LET kept == SelectSeq(chat_history,
                    LAMBDA msg : msg.class \in {"HumanMessage", "AIMessage"})
    IN  [i \in 1..Len(kept) |->
            [type |-> IF kept[i].class = "HumanMessage" THEN TypeHuman ELSE TypeAi,
             content |-> kept[i].content]]

\* save_chat_history lines 148-152
title_of(history) ==
    IF history # <<>> /\ history[1].type = TypeHuman
    THEN LET first_message == history[1].content
         IN  IF Len(first_message) > TitleLimit
             THEN SubSeq(first_message, 1, TitleLimit) \o Ellipsis
             ELSE first_message
    ELSE NewChatTitle

\* save_chat_history lines 154-155: what json.dump writes
history_file(chat_history) ==
    LET history == serializable_history(chat_history)
    IN  Json(JObj([title |-> JStr(title_of(history)),
                   messages |-> JList([i \in 1..Len(history) |->
                       JObj([type |-> JStr(history[i].type),
                             content |-> JStr(history[i].content)])])]))

IsStr(value, s) == value.j = "string" /\ value.chars = s

\* load_chat_history lines 169-175: the loop over the entries; a KeyError is
\* caught (line 176) and gives [], any other exception leaves the function.
RECURSIVE load_messages(_, _, _)
load_messages(items, i, history) ==
    IF i > Len(items) THEN Returned(history)
    ELSE LET msg_data == items[i]
         IN  IF msg_data.j # "object" THEN Raised("TypeError")
             ELSE IF "type" \notin DOMAIN msg_data.fields THEN Returned(<<>>)
             ELSE IF IsStr(msg_data.fields["type"], TypeHuman)
             THEN IF "content" \notin DOMAIN msg_data.fields THEN Returned(<<>>)
                  ELSE load_messages(items, i + 1,
                           Append(history, HumanMessage(msg_data.fields["content"].chars)))
             ELSE IF IsStr(msg_data.fields["type"], TypeAi)
             THEN IF "content" \notin DOMAIN msg_data.fields THEN Returned(<<>>)
                  ELSE load_messages(items, i + 1,
                           Append(history, AIMessage(msg_data.fields["content"].chars)))
             ELSE load_messages(items, i + 1, history)

\* load_chat_history lines 161-177, on the content of the history file
load_chat_history_result(file) ==
    IF file = Absent THEN Returned(<<>>)
    ELSE IF file.kind # "json" THEN Returned(<<>>)
    ELSE LET data == file.value
         IN  IF data.j # "object" THEN Raised("AttributeError")
             ELSE LET messages == IF "messages" \in DOMAIN data.fields
                                  THEN data.fields["messages"] ELSE JList(<<>>)
                  IN  IF messages.j = "array"
                      THEN load_messages(messages.items, 1, <<>>)
                      ELSE IF messages.j = "string" /\ messages.chars = <<>>
                      THEN Returned(<<>>)
                      ELSE IF messages.j = "object" /\ DOMAIN messages.fields = {}
                      THEN Returned(<<>>)
                      ELSE Raised("TypeError")

Without(seq, x) == SelectSeq(seq, LAMBDA y : y # x)

\* list_past_chats lines 192-198, for one file
RECURSIVE listed_titles(_, _, _, _)
listed_titles(dir, files, i, listed) ==
    IF i > Len(files) THEN Returned(listed)
    ELSE LET file == dir[files[i]]
         IN  IF file.kind # "json"
             THEN listed_titles(dir, files, i + 1,
                      Append(listed, [chat_id |-> files[i], title |-> [chat_id |-> files[i]]]))
             ELSE IF file.value.j # "object" THEN Raised("AttributeError")
             ELSE listed_titles(dir, files, i + 1,
                      Append(listed, [chat_id |-> files[i],
                          title |-> IF "title" \in DOMAIN file.value.fields
                                    THEN file.value.fields["title"]
                                    ELSE [chat_id |-> files[i]]]))

\* list_past_chats lines 185-200: the files newest first, each with its title
list_past_chats_result(dir, order) == listed_titles(dir, order, 1, <<>>)

UnchangedCred == UNCHANGED <<users_json, first_pw>>

\* save_chat_history(username, chat_id, chat_history), run to completion.
save_chat_history(username, chat_id, chat_history) ==
    /\ user_dirs' = user_dirs \cup {username}
    /\ chats' = [chats EXCEPT ![username][chat_id] = history_file(chat_history)]
    /\ mtime_order' = [mtime_order EXCEPT ![username] = <<chat_id>> \o Without(@, chat_id)]
    /\ saved' = [saved EXCEPT ![username][chat_id] = Returned(chat_history)]
    /\ call' = [op |-> "save", username |-> username, chat_id |-> chat_id]
    /\ ret' = Returned(None)
    /\ UnchangedCred
    /\ UnchangedRace
    /\ UnchangedApp

\* load_chat_history(username, chat_id), run to completion.
load_chat_history(username, chat_id) ==
    /\ user_dirs' = user_dirs \cup {username}
    /\ call' = [op |-> "load", username |-> username, chat_id |-> chat_id]
    /\ ret' = load_chat_history_result(chats[username][chat_id])
    /\ UnchangedStore
    /\ UnchangedCred
    /\ UnchangedRace
    /\ UnchangedApp

\* list_past_chats(username), run to completion.
list_past_chats(username) ==
    /\ user_dirs' = user_dirs \cup {username}
    /\ call' = [op |-> "list", username |-> username]
    /\ ret' = list_past_chats_result(chats[username], mtime_order[username])
    /\ UnchangedStore
    /\ UnchangedCred
    /\ UnchangedRace
    /\ UnchangedApp

\* Faulty variant of delete_chat_history: the file is not removed.
delete_chat_history_keeps_file(username, chat_id) ==
    /\ user_dirs' = user_dirs \cup {username}
    /\ saved' = [saved EXCEPT ![username][chat_id] = None]
    /\ call' = [op |-> "delete", username |-> username, chat_id |-> chat_id]
    /\ ret' = Returned(None)
    /\ UNCHANGED <<chats, mtime_order>>
    /\ UnchangedCred
    /\ UnchangedRace
    /\ UnchangedApp

\* delete_chat_history(username, chat_id), run to completion.
delete_chat_history(username, chat_id) ==
    /\ user_dirs' = user_dirs \cup {username}
    /\ chats' = [chats EXCEPT ![username][chat_id] = Absent]
    /\ mtime_order' = [mtime_order EXCEPT ![username] = Without(@, chat_id)]
    /\ saved' = [saved EXCEPT ![username][chat_id] = None]
    /\ call' = [op |-> "delete", username |-> username, chat_id |-> chat_id]
    /\ ret' = Returned(None)
    /\ UnchangedCred
    /\ UnchangedRace
    /\ UnchangedApp

\* The users are registered: register_user has made their directories.
InitStore ==
    /\ users_json = Absent
    /\ user_dirs = Users
    /\ call = Idle
    /\ ret = None
    /\ first_pw = [u \in Users |-> None]
    /\ reg_pc = [p \in Procs |-> "idle"]
    /\ reg_arg = [p \in Procs |-> None]
    /\ reg_db = [p \in Procs |-> None]
    /\ reg_ret = [p \in Procs |-> None]
    /\ chats = [u \in Users |-> [c \in ChatIds |-> Absent]]
    /\ mtime_order = [u \in Users |-> <<>>]
    /\ saved = [u \in Users |-> [c \in ChatIds |-> None]]
    /\ race = None
    /\ InitIdleApp

\* The runs explored use one user's area at a time: a user calls the store
\* while no other user has a record.
SoleWriter(username) ==
    \A u \in Users \ {username}, c \in ChatIds : chats[u][c] = Absent

NextStore ==
    \/ \E u \in Users, c \in ChatIds, h \in Histories :
          SoleWriter(u) /\ save_chat_history(u, c, h)
    \/ \E u \in Users, c \in ChatIds : SoleWriter(u) /\ load_chat_history(u, c)
    \/ \E u \in Users : SoleWriter(u) /\ list_past_chats(u)
    \/ \E u \in Users, c \in ChatIds : SoleWriter(u) /\ delete_chat_history(u, c)

SpecStore == InitStore /\ [][NextStore]_vars

Live(username) == {c \in ChatIds : saved[username][c] # None}

ListedIds(result) == {result.value[i].chat_id : i \in 1..Len(result.value)}

\* C6: save followed by load returns the saved messages, equal in length,
\* order, type tag and content; after several saves for one id, load returns
\* the last saved sequence only.
C6_RoundTrip ==
    /\ \A u \in Users, c \in ChatIds :
          saved[u][c] # None => load_chat_history_result(chats[u][c]) = saved[u][c]
    /\ (call.op = "load" /\ saved[call.username][call.chat_id] # None)
          => ret = saved[call.username][call.chat_id]

\* A load returned a saved two-message history that starts with an agent
\* message and goes on with a human one.
C6_Witness ==
    /\ call.op = "load"
    /\ ret.kind = "returned"
    /\ Len(ret.value) = 2
    /\ ret.value[1].class = "AIMessage"
    /\ ret.value[2].class = "HumanMessage"
    /\ saved[call.username][call.chat_id] = ret

\* C8: the ids listAll returns are exactly those saved and not deleted since;
\* delete of an id with no record raises nothing and changes no record and no
\* listing.
C8_ListAfterSaveDelete ==
    /\ [](\A u \in Users :
            LET listed == list_past_chats_result(chats[u], mtime_order[u])
            IN  listed.kind = "returned" /\ ListedIds(listed) = Live(u))
    /\ [](call.op = "list" =>
            ret.kind = "returned" /\ ListedIds(ret) = Live(call.username))
    /\ [][\A u \in Users, c \in ChatIds :
            (delete_chat_history(u, c) /\ chats[u][c] = Absent) =>
                /\ ret' = Returned(None)
                /\ chats' = chats
                /\ mtime_order' = mtime_order]_vars

\* A record was deleted while another record of the same user stays listed.
C8_Witness ==
    /\ call.op = "delete"
    /\ Live(call.username) # {}
    /\ call.chat_id \notin ListedIds(
           list_past_chats_result(chats[call.username], mtime_order[call.username]))

\* The title the claim describes: from the first human message, wherever it
\* sits in the sequence.
title_of_first_human(chat_history) ==
    LET humans == SelectSeq(chat_history, LAMBDA msg : msg.class = "HumanMessage")
    IN  IF humans = <<>> THEN NewChatTitle
        ELSE IF Len(humans[1].content) > TitleLimit
        THEN SubSeq(humans[1].content, 1, TitleLimit) \o Ellipsis
        ELSE humans[1].content

\* C9: the stored title is derived from the first human message of the saved
\* sequence wherever it sits (its content, or its first 50 characters and
\* "..."), and is "New Chat" only when there is no human message.
C9_TitleFromFirstHuman ==
    \A u \in Users, c \in ChatIds :
        saved[u][c] # None =>
            chats[u][c].value.fields["title"] = JStr(title_of_first_human(saved[u][c].value))

\* ------------------------------------------------------------------------
\* load_chat_history on records that save_chat_history did not write
\* ------------------------------------------------------------------------
Garbage == [kind |-> "garbage"]

\* Entries of a messages list: two well-formed ones, objects lacking a field
\* or carrying another type tag, and values that are no objects.
Entries ==
    {JObj([type |-> JStr(TypeHuman), content |-> JStr(Text(1))]),
     JObj([type |-> JStr(TypeAi), content |-> JStr(Text(2))]),
     JObj([content |-> JStr(Text(1))]),
     JObj([type |-> JStr(TypeHuman)]),
     JObj([type |-> JStr(TypeSystem)]),
     JNum(1), JStr(Text(2)), JNull}

MessagesValues ==
    {JList(items) : items \in UNION {[1..n -> Entries] : n \in 0..MaxLen}}
        \cup {JNum(1), JNull, JStr(Text(2)), JStr(<<>>),
              JObj([a |-> JNum(1)]), JObj(EmptyDb)}

RecordFiles ==
    {Absent, Truncated, Garbage}
        \cup {Json(JObj([title |-> JStr(NewChatTitle), messages |-> m])) :
                 m \in MessagesValues}
        \cup {Json(JObj([title |-> JStr(NewChatTitle)])),
              Json(JList(<<>>)), Json(JNum(1)), Json(JStr(Text(2))), Json(JNull)}

InitLoad ==
    /\ users_json = Absent
    /\ user_dirs = Users
    /\ call = Idle
    /\ ret = None
    /\ first_pw = [u \in Users |-> None]
    /\ reg_pc = [p \in Procs |-> "idle"]
    /\ reg_arg = [p \in Procs |-> None]
    /\ reg_db = [p \in Procs |-> None]
    /\ reg_ret = [p \in Procs |-> None]
    /\ \E file \in RecordFiles :
          /\ chats = [u \in Users |-> [c \in ChatIds |->
                        IF u = "alice" /\ c = chat_id_at(1) THEN file ELSE Absent]]
          /\ mtime_order = [u \in Users |->
                        IF u = "alice" /\ file # Absent THEN <<chat_id_at(1)>> ELSE <<>>]
    /\ saved = [u \in Users |-> [c \in ChatIds |-> None]]
    /\ race = None
    /\ InitIdleApp

NextLoad ==
    \/ \E u \in Users, c \in ChatIds : load_chat_history(u, c)
    \/ \E u \in Users : list_past_chats(u)

SpecLoad == InitLoad /\ [][NextLoad]_vars

\* The corrupted records the claim names.
NotParsable(file) == file.kind \in {"truncated", "garbage", "partial"}

TopLevelNotObject(file) == file.kind = "json" /\ file.value.j # "object"

HasMessages(file) ==
    file.kind = "json" /\ file.value.j = "object" /\ "messages" \in DOMAIN file.value.fields

MessagesNotListOfObjects(file) ==
    /\ HasMessages(file)
    /\ LET m == file.value.fields["messages"]
       IN  m.j # "array" \/ \E i \in 1..Len(m.items) : m.items[i].j # "object"

EntryMissingField(file) ==
    /\ HasMessages(file)
    /\ LET m == file.value.fields["messages"]
       IN  /\ m.j = "array"
           /\ \E i \in 1..Len(m.items) :
                 /\ m.items[i].j = "object"
                 /\ {"type", "content"} \ DOMAIN m.items[i].fields # {}

Corrupted(file) ==
    \/ NotParsable(file)
    \/ TopLevelNotObject(file)
    \/ MessagesNotListOfObjects(file)
    \/ EntryMissingField(file)

\* C7: load returns an empty sequence, and raises nothing, for an id with no
\* record and for every corrupted record.
C7_LoadCorruptedEmpty ==
    LET file == chats[call.username][call.chat_id]
    IN  (call.op = "load" /\ (file = Absent \/ Corrupted(file)))
            => ret = Returned(<<>>)

\* ------------------------------------------------------------------------
\* save_chat_history and load_chat_history of one record in two processes
\* ------------------------------------------------------------------------
Partial == [kind |-> "partial"]
RaceUser == "alice"
RaceChat == chat_id_at(1)

UnchangedButFile ==
    UNCHANGED <<users_json, user_dirs, call, first_pw,
                reg_pc, reg_arg, reg_db, reg_ret, mtime_order, saved,
                session_state, faiss_index, now, turns>>

\* save_chat_history line 154: open(history_file, "w") truncates the file
save_open ==
    /\ race.save_pc = "open"
    /\ chats' = [chats EXCEPT ![RaceUser][RaceChat] = Truncated]
    /\ race' = [race EXCEPT !.save_pc = "dump"]
    /\ UNCHANGED ret
    /\ UnchangedButFile

\* save_chat_history line 155: json.dump writes in pieces into the buffered
\* file; the file holds nothing or a prefix until the close
save_dump ==
    /\ race.save_pc = "dump"
    /\ \E file \in {Truncated, Partial} :
          chats' = [chats EXCEPT ![RaceUser][RaceChat] = file]
    /\ race' = [race EXCEPT !.save_pc = "close"]
    /\ UNCHANGED ret
    /\ UnchangedButFile

\* save_chat_history line 154: leaving the with block flushes and closes
save_close ==
    /\ race.save_pc = "close"
    /\ chats' = [chats EXCEPT ![RaceUser][RaceChat] = history_file(race.new)]
    /\ race' = [race EXCEPT !.save_pc = "done"]
    /\ UNCHANGED ret
    /\ UnchangedButFile

\* load_chat_history line 161: os.path.exists(history_file)
load_exists ==
    /\ race.load_pc = "exists"
    /\ IF chats[RaceUser][RaceChat] = Absent
       THEN ret' = Returned(<<>>) /\ race' = [race EXCEPT !.load_pc = "done"]
       ELSE UNCHANGED ret /\ race' = [race EXCEPT !.load_pc = "read"]
    /\ UNCHANGED chats
    /\ UnchangedButFile

\* load_chat_history lines 164-177: open, json.load, rebuild the messages
load_read ==
    /\ race.load_pc = "read"
    /\ ret' = load_chat_history_result(chats[RaceUser][RaceChat])
    /\ race' = [race EXCEPT !.load_pc = "done"]
    /\ UNCHANGED chats
    /\ UnchangedButFile

InitFileRace ==
    /\ users_json = Absent
    /\ user_dirs = Users
    /\ call = Idle
    /\ ret = None
    /\ first_pw = [u \in Users |-> None]
    /\ reg_pc = [p \in Procs |-> "idle"]
    /\ reg_arg = [p \in Procs |-> None]
    /\ reg_db = [p \in Procs |-> None]
    /\ reg_ret = [p \in Procs |-> None]
    /\ \E old \in Histories, new \in Histories :
          /\ race = [save_pc |-> "open", load_pc |-> "exists", old |-> old, new |-> new]
          /\ chats = [u \in Users |-> [c \in ChatIds |->
                        IF u = RaceUser /\ c = RaceChat THEN history_file(old) ELSE Absent]]
    /\ mtime_order = [u \in Users |-> IF u = RaceUser THEN <<RaceChat>> ELSE <<>>]
    /\ saved = [u \in Users |-> [c \in ChatIds |-> None]]
    /\ InitIdleApp

NextFileRace ==
    \/ save_open
    \/ save_dump
    \/ save_close
    \/ load_exists
    \/ load_read

SpecFileRace == InitFileRace /\ [][NextFileRace]_vars

\* C1: a load running while another process saves over the record returns
\* the messages saved before or the messages being saved, never an empty or
\* partial sequence.
C1_AtomicSessionWrite ==
    race.load_pc = "done" => ret \in {Returned(race.old), Returned(race.new)}

\* ------------------------------------------------------------------------
\* The Streamlit session (main.py): one action is one widget event with the
\* script run it starts, up to the end of the rerun it asks for.
\* ------------------------------------------------------------------------
Sources == {"doc_a", "doc_b"}
Queries == {Text(1)}
Replies == {Text(2)}
ClockChatIds == {chat_id_at(t) : t \in 1..MaxClock}

\* process_and_store_docs lines 123-127: the index built from one source
faiss_from(source) == [kind |-> "faiss", source |-> source]

\* load_vector_store line 132, on the index stored under the user's path
load_vector_store(username, index) == [path |-> username, store |-> index[username]]

\* get_conversational_agent lines 100-115: the executor holds the retriever
get_conversational_agent(vector_store) == [kind |-> "agent", retriever |-> vector_store]

\* show_chat_page lines 136-144: the agent is loaded when the index exists
\* and no agent is cached
with_agent(state, index) ==
    IF index[state.username] # None /\ state.agent_executor = None
    THEN [state EXCEPT !.agent_executor =
              get_conversational_agent(load_vector_store(state.username, index))]
    ELSE state

\* show_chat_page line 94: the chats of the sidebar
past_chats(username) == list_past_chats_result(chats[username], mtime_order[username])

UnchangedByApp ==
    UNCHANGED <<first_pw, reg_pc, reg_arg, reg_db, reg_ret, saved, race>>

\* show_login_page lines 46-56: the Login button
login(username, password) ==
    /\ ~session_state.logged_in
    /\ users_json # Truncated
    /\ users_json' = get_user_db_file(users_json)
    /\ IF verify_user_result(users_json, username, password)
       THEN /\ session_state' = with_agent(
                  [session_state EXCEPT !.logged_in = TRUE,
                                        !.username = username,
                                        !.agent_executor = None,
                                        !.chat_history = <<>>,
                                        !.current_chat_id = None], faiss_index)
            /\ user_dirs' = user_dirs \cup {username}
            /\ ret' = Returned(TRUE)
       ELSE /\ UNCHANGED <<session_state, user_dirs>>
            /\ ret' = Returned(FALSE)
    /\ call' = [op |-> "login"]
    /\ UNCHANGED <<chats, mtime_order, faiss_index, now>>
    /\ UNCHANGED turns
    /\ UnchangedByApp

\* show_chat_page lines 80-83: the Logout button
logout ==
    /\ session_state.logged_in
    /\ session_state' = NewSession
    /\ call' = [op |-> "logout"]
    /\ ret' = Returned(None)
    /\ UNCHANGED <<users_json, user_dirs, chats, mtime_order, faiss_index, now>>
    /\ UNCHANGED turns
    /\ UnchangedByApp

\* show_chat_page lines 86-91: the New Chat button
new_chat ==
    /\ session_state.logged_in
    /\ session_state' = with_agent(
           [session_state EXCEPT !.current_chat_id = chat_id_at(now),
                                 !.chat_history = <<>>], faiss_index)
    /\ call' = [op |-> "new_chat"]
    /\ ret' = Returned(None)
    /\ UNCHANGED <<users_json, user_dirs, chats, mtime_order, faiss_index, now>>
    /\ UNCHANGED turns
    /\ UnchangedByApp

\* show_chat_page lines 99-102: the button of a past chat
select_chat(chat_id) ==
    /\ session_state.logged_in
    /\ past_chats(session_state.username).kind = "returned"
    /\ chat_id \in ListedIds(past_chats(session_state.username))
    /\ LET loaded == load_chat_history_result(chats[session_state.username][chat_id])
       IN  IF loaded.kind = "returned"
           THEN /\ session_state' = with_agent(
                      [session_state EXCEPT !.current_chat_id = chat_id,
                                            !.chat_history = loaded.value], faiss_index)
                /\ ret' = Returned(None)
           ELSE /\ session_state' = [session_state EXCEPT !.current_chat_id = chat_id]
                /\ ret' = loaded
    /\ call' = [op |-> "select_chat"]
    /\ UNCHANGED <<users_json, user_dirs, chats, mtime_order, faiss_index, now>>
    /\ UNCHANGED turns
    /\ UnchangedByApp

\* show_chat_page lines 104-109: the delete button of a past chat
delete_chat(chat_id) ==
    /\ session_state.logged_in
    /\ past_chats(session_state.username).kind = "returned"
    /\ chat_id \in ListedIds(past_chats(session_state.username))
    /\ chats' = [chats EXCEPT ![session_state.username][chat_id] = Absent]
    /\ mtime_order' = [mtime_order EXCEPT ![session_state.username] = Without(@, chat_id)]
    /\ session_state' = with_agent(
           IF session_state.current_chat_id = chat_id
           THEN [session_state EXCEPT !.current_chat_id = None, !.chat_history = <<>>]
           ELSE session_state, faiss_index)
    /\ call' = [op |-> "delete_chat"]
    /\ ret' = Returned(None)
    /\ UNCHANGED <<users_json, user_dirs, faiss_index, now>>
    /\ UNCHANGED turns
    /\ UnchangedByApp

\* Faulty variant of process_data: line 129 is missing, the cached agent
\* stays.
process_data_keeps_agent(source) ==
    /\ session_state.logged_in
    /\ faiss_index' = [faiss_index EXCEPT ![session_state.username] = faiss_from(source)]
    /\ session_state' = with_agent(session_state, faiss_index')
    /\ call' = [op |-> "process_data"]
    /\ ret' = Returned(None)
    /\ UNCHANGED <<users_json, user_dirs, chats, mtime_order, now>>
    /\ UNCHANGED turns
    /\ UnchangedByApp

\* show_chat_page lines 126-131: the Process Data button, the build succeeds
process_data(source) ==
    /\ session_state.logged_in
    /\ faiss_index' = [faiss_index EXCEPT ![session_state.username] = faiss_from(source)]
    /\ session_state' = with_agent(
           [session_state EXCEPT !.agent_executor = None], faiss_index')
    /\ call' = [op |-> "process_data"]
    /\ ret' = Returned(None)
    /\ UNCHANGED <<users_json, user_dirs, chats, mtime_order, now>>
    /\ UNCHANGED turns
    /\ UnchangedByApp

\* show_chat_page line 128: process_and_store_docs raises while loading,
\* splitting or embedding; the script run ends there
process_data_fails(source) ==
    /\ session_state.logged_in
    /\ call' = [op |-> "process_data"]
    /\ ret' = Raised("IngestionError")
    /\ UNCHANGED <<users_json, user_dirs, chats, mtime_order, now,
                   session_state, faiss_index>>
    /\ UNCHANGED turns
    /\ UnchangedByApp

\* show_chat_page lines 136-147: the chat input is shown
chat_input_shown ==
    /\ session_state.logged_in
    /\ faiss_index[session_state.username] # None
    /\ session_state.current_chat_id # None

\* what is recorded of an agent invocation: the executor invoked and the
\* index of the logged-in user at that moment
invocation(state) ==
    [op |-> "send", agent |-> state.agent_executor, username |-> state.username,
     index |-> faiss_index[state.username]]

\* show_chat_page lines 155-171: a message is sent and the agent replies
send_message(user_query, output) ==
    /\ chat_input_shown
    /\ turns < MaxTurns
    /\ turns' = turns + 1
    /\ LET state == with_agent(session_state, faiss_index)
           chat_history == state.chat_history
                               \o <<HumanMessage(user_query), AIMessage(output)>>
       IN  /\ session_state' = [state EXCEPT !.chat_history = chat_history]
           /\ chats' = [chats EXCEPT ![state.username][state.current_chat_id] =
                            history_file(chat_history)]
           /\ mtime_order' = [mtime_order EXCEPT ![state.username] =
                            <<state.current_chat_id>> \o Without(@, state.current_chat_id)]
           /\ user_dirs' = user_dirs \cup {state.username}
           /\ call' = invocation(state)
    /\ ret' = Returned(None)
    /\ UNCHANGED <<users_json, faiss_index, now>>
    /\ UnchangedByApp

\* Faulty variant of send_message_fails: the history is saved before the
\* agent is invoked.
send_message_fails_saving(user_query) ==
    /\ chat_input_shown
    /\ turns < MaxTurns
    /\ turns' = turns + 1
    /\ LET state == with_agent(session_state, faiss_index)
           chat_history == Append(state.chat_history, HumanMessage(user_query))
       IN  /\ session_state' = [state EXCEPT !.chat_history = chat_history]
           /\ chats' = [chats EXCEPT ![state.username][state.current_chat_id] =
                            history_file(chat_history)]
           /\ mtime_order' = [mtime_order EXCEPT ![state.username] =
                            <<state.current_chat_id>> \o Without(@, state.current_chat_id)]
           /\ call' = invocation(state)
    /\ ret' = Raised("AgentError")
    /\ UNCHANGED <<users_json, user_dirs, faiss_index, now>>
    /\ UnchangedByApp

\* show_chat_page lines 155-162: a message is sent and the agent call raises
send_message_fails(user_query) ==
    /\ chat_input_shown
    /\ turns < MaxTurns
    /\ turns' = turns + 1
    /\ LET state == with_agent(session_state, faiss_index)
       IN  /\ session_state' = [state EXCEPT !.chat_history =
                                    Append(@, HumanMessage(user_query))]
           /\ call' = invocation(state)
    /\ ret' = Raised("AgentError")
    /\ UNCHANGED <<users_json, user_dirs, chats, mtime_order, faiss_index, now>>
    /\ UnchangedByApp

\* a second of the wall clock passes
tick ==
    /\ now < MaxClock
    /\ now' = now + 1
    /\ UNCHANGED <<users_json, user_dirs, call, ret, chats, mtime_order,
                   session_state, faiss_index>>
    /\ UNCHANGED turns
    /\ UnchangedByApp

\* datetime.now() is the local wall clock: it is set back at the end of
\* daylight saving time and by clock adjustments
clock_set_back ==
    /\ \E second \in 1..(now - 1) : now' = second
    /\ UNCHANGED <<users_json, user_dirs, call, ret, chats, mtime_order,
                   session_state, faiss_index>>
    /\ UNCHANGED turns
    /\ UnchangedByApp

\* Both users are registered, each with the first password.
InitApp ==
    /\ users_json = Json([u \in Users |-> hash_password(1)])
    /\ user_dirs = Users
    /\ call = Idle
    /\ ret = None
    /\ first_pw = [u \in Users |-> Returned(1)]
    /\ reg_pc = [p \in Procs |-> "idle"]
    /\ reg_arg = [p \in Procs |-> None]
    /\ reg_db = [p \in Procs |-> None]
    /\ reg_ret = [p \in Procs |-> None]
    /\ chats = [u \in Users |-> [c \in ClockChatIds |-> Absent]]
    /\ mtime_order = [u \in Users |-> <<>>]
    /\ saved = [u \in Users |-> [c \in ClockChatIds |-> None]]
    /\ race = None
    /\ session_state = NewSession
    /\ faiss_index = [u \in Users |-> None]
    /\ now = 1
    /\ turns = 0

NextApp ==
    \/ \E u \in Users, p \in Passwords : login(u, p)
    \/ logout
    \/ new_chat
    \/ \E c \in ClockChatIds : select_chat(c)
    \/ \E c \in ClockChatIds : delete_chat(c)
    \/ \E s \in Sources : process_data(s)
    \/ \E s \in Sources : process_data_fails(s)
    \/ \E q \in Queries, r \in Replies : send_message(q, r)
    \/ \E q \in Queries : send_message_fails(q)
    \/ tick
    \/ clock_set_back

SpecApp == InitApp /\ [][NextApp]_vars

Record(username, chat_id) == chats[username][chat_id]

RecordMessages(file) == file.value.fields["messages"].items

EndsWithAgentMessage(file) ==
    /\ RecordMessages(file) # <<>>
    /\ IsStr(RecordMessages(file)[Len(RecordMessages(file))].fields["type"], TypeAi)

\* C4: a turn whose agent call fails leaves every persisted record as it was
\* (none is created), and every record the turns write ends with an
\* agent-authored message.
C4_SaveOnlyAfterReply ==
    /\ [](\A u \in Users, c \in ClockChatIds :
            Record(u, c) # Absent => EndsWithAgentMessage(Record(u, c)))
    /\ [][\A q \in Queries :
            send_message_fails(q) => chats' = chats /\ mtime_order' = mtime_order]_vars

\* The agent call failed in a conversation that has a record: the record holds
\* the earlier turn, the session one more message.
C4_Witness ==
    /\ call.op = "send"
    /\ ret = Raised("AgentError")
    /\ session_state.current_chat_id # None
    /\ Record(session_state.username, session_state.current_chat_id) # Absent
    /\ Len(session_state.chat_history) =
          Len(RecordMessages(Record(session_state.username,
                                    session_state.current_chat_id))) + 1

\* C5: the cached agent is the one made from the logged-in user's index as
\* the last successful build left it, and so is the agent of every invocation.
C5_AgentFromCurrentIndex ==
    /\ (session_state.logged_in /\ session_state.agent_executor # None) =>
          session_state.agent_executor =
              get_conversational_agent(
                  load_vector_store(session_state.username, faiss_index))
    /\ call.op = "send" =>
          /\ call.index # None
          /\ call.agent.kind = "agent"
          /\ call.agent.retriever = [path |-> call.username, store |-> call.index]

\* The agent was invoked for bob, whose index was built from another source
\* than the index alice has.
C5_Witness ==
    /\ call.op = "send"
    /\ ret = Returned(None)
    /\ call.username = "bob"
    /\ faiss_index["alice"] # None
    /\ faiss_index["alice"] # call.index

\* C10: New Chat gives the session an id that no persisted record of the user
\* has, also when two New Chat actions fall into one clock second.
C10_NewChatIdFresh ==
    [][new_chat =>
         session_state'.current_chat_id \notin
             {c \in ClockChatIds : Record(session_state.username, c) # Absent}]_vars

====
